---- MODULE Spec2Model ----
(***************************************************************************)
(* Model of the project scaffolder az-builder-helper: the placeholder      *)
(* renderer renderTemplate (src/utils/templateUtils.ts) and the command    *)
(* createProject (src/commands/createProject.ts).                          *)
(*                                                                         *)
(* Strings are sequences of one-character strings.                         *)
(***************************************************************************)
EXTENDS Integers, Sequences, FiniteSets, TLC

VARIABLES
    template,    \* renderTemplate: the template argument
    variables,   \* renderTemplate: the variables argument (own properties)
    rpc,         \* renderTemplate: "idle" before the call, "done" after it
    result,      \* renderTemplate: the returned string
    warnings,    \* renderTemplate: identifiers console.warn named, in order
    again,       \* renderTemplate: what a second call, on the output, returns
    env,         \* createProject: the file system outside the project directory
    projFs,      \* createProject: directories and files of the project directory
    ops,         \* createProject: file and process operations done, in order
    log,         \* createProject: console messages, in order
    cpc,         \* createProject: the function to run next
    exitCode,    \* createProject: code passed to process.exit
    git,         \* the git init process and its close handler
    npm,         \* the npm install process and its close handler
    bpc,         \* build-and-link script: where main stands
    bproc,       \* build-and-link script: the process runCommand spawned
    bpromise,    \* build-and-link script: the promise main awaits
    bcmds,       \* build-and-link script: commands spawned, in order
    bclosed,     \* build-and-link script: close events handled, in order
    blog,        \* build-and-link script: console messages, in order
    bexit        \* build-and-link script: code passed to process.exit

rvars == <<template, variables, rpc, result, warnings, again>>
cvars == <<env, projFs, ops, log, cpc, exitCode, git, npm>>
bvars == <<bpc, bproc, bpromise, bcmds, bclosed, blog, bexit>>
vars == <<rvars, cvars, bvars>>

-----------------------------------------------------------------------------
(* Characters and strings *)

\* Variant of WordChars: the class also admits the space character.
WordCharsWithSpace ==
    {"a", "b", "c", "d", "e", "f", "g", "h", "i", "j", "k", "l", "m", "n",
     "o", "p", "q", "r", "s", "t", "u", "v", "w", "x", "y", "z", "A", "B",
     "C", "D", "E", "F", "G", "H", "I", "J", "K", "L", "M", "N", "O", "P",
     "Q", "R", "S", "T", "U", "V", "W", "X", "Y", "Z", "0", "1", "2", "3",
     "4", "5", "6", "7", "8", "9", "_", " "}

\* The class \w of the regular expression: letters, digits, underscore.
WordChars ==
    {"a", "b", "c", "d", "e", "f", "g", "h", "i", "j", "k", "l", "m", "n",
     "o", "p", "q", "r", "s", "t", "u", "v", "w", "x", "y", "z", "A",
     "B", "C", "D", "E", "F", "G", "H", "I", "J", "K", "L", "M", "N",
     "O", "P", "Q", "R", "S", "T", "U", "V", "W", "X", "Y", "Z", "0",
     "1", "2", "3", "4", "5", "6", "7", "8", "9", "_"}

RECURSIVE Concat(_)
\* Concatenation of a sequence of strings.
Concat(ss) == IF ss = <<>> THEN <<>> ELSE Head(ss) \o Concat(Tail(ss))

\* The substring of t from position i (1-based) to position j, inclusive.
Sub(t, i, j) == IF i > j THEN <<>> ELSE SubSeq(t, i, j)

-----------------------------------------------------------------------------
(* Inputs *)

MaxSegs == 3

IdA == <<"a">>
IdB == <<"b", "_", "1">>
IdProto == <<"v", "a", "l", "u", "e", "O", "f">>

TokA == <<"{", "{", "a", "}", "}">>
TokB == <<"{", "{", "b", "_", "1", "}", "}">>
TokProto == <<"{", "{", "v", "a", "l", "u", "e", "O", "f", "}", "}">>

\* The pieces templates are built from: tokens, the malformed brace
\* sequences and the single braces.
Segments ==
    { TokA, TokB, TokProto,
      <<"{", "{", "}", "}">>,
      <<"{", "{", " ", "a", " ", "}", "}">>,
      <<"{", "{", "a", "-", "b", "}", "}">>,
      <<"{">>, <<"}">> }

Templates == { Concat(ss) : ss \in UNION { [1..n -> Segments] : n \in 0..MaxSegs } }

Values == { <<>>, <<"x">>, TokB }

\* Variable mappings: the own properties of a plain object.
Mappings ==
    UNION { [ks -> Values] : ks \in SUBSET {IdA, IdB} }
    \cup { (IdProto :> <<"x">>), (IdProto :> <<"x">>) @@ (IdA :> <<>>) }

-----------------------------------------------------------------------------
(* renderTemplate *)

\* Properties every plain object inherits from Object.prototype whose names
\* are made of word characters, with the string String.prototype.replace
\* converts their value to.
ObjectPrototype ==
    (<<"v", "a", "l", "u", "e", "O", "f">> :> <<"f", "u", "n", "c", "t", "i", "o", "n", " ", "v", "a", "l", "u", "e", "O", "f", "(", ")", " ", "{", " ", "[", "n", "a", "t", "i", "v", "e", " ", "c", "o", "d", "e", "]", " ", "}">>)
    @@ (<<"t", "o", "S", "t", "r", "i", "n", "g">> :> <<"f", "u", "n", "c", "t", "i", "o", "n", " ", "t", "o", "S", "t", "r", "i", "n", "g", "(", ")", " ", "{", " ", "[", "n", "a", "t", "i", "v", "e", " ", "c", "o", "d", "e", "]", " ", "}">>)
    @@ (<<"c", "o", "n", "s", "t", "r", "u", "c", "t", "o", "r">> :> <<"f", "u", "n", "c", "t", "i", "o", "n", " ", "O", "b", "j", "e", "c", "t", "(", ")", " ", "{", " ", "[", "n", "a", "t", "i", "v", "e", " ", "c", "o", "d", "e", "]", " ", "}">>)
    @@ (<<"_", "_", "p", "r", "o", "t", "o", "_", "_">> :> <<"[", "o", "b", "j", "e", "c", "t", " ", "O", "b", "j", "e", "c", "t", "]">>)

Undefined == [type |-> "undefined"]

\* Variant of PropertyGet: a key without a property yields the placeholder
\* itself, so that it stays in the output.
PropertyGetKeepsPlaceholder(vs, key) ==
    IF key \in DOMAIN vs THEN [type |-> "string", str |-> vs[key]]
    ELSE IF key \in DOMAIN ObjectPrototype
         THEN [type |-> "inherited", str |-> ObjectPrototype[key]]
         ELSE [type |-> "string", str |-> <<"{", "{">> \o key \o <<"}", "}">>]

\* variables[key]: an own property, else an inherited one, else undefined.
PropertyGet(vs, key) ==
    IF key \in DOMAIN vs THEN [type |-> "string", str |-> vs[key]]
    ELSE IF key \in DOMAIN ObjectPrototype
         THEN [type |-> "inherited", str |-> ObjectPrototype[key]]
         ELSE Undefined

\* Variant of Replacer: an empty mapping is taken to mean "nothing to
\* report" and the warning is skipped.
ReplacerQuietWhenEmpty(vs, key) ==
    IF PropertyGet(vs, key) = Undefined
    THEN [text |-> <<>>, warns |-> IF DOMAIN vs = {} THEN <<>> ELSE <<key>>]
    ELSE [text |-> PropertyGet(vs, key).str, warns |-> <<>>]

\* The replacement callback: the text put in place of the token and the
\* warnings it emits.
Replacer(vs, key) ==
    IF PropertyGet(vs, key) = Undefined
    THEN [text |-> <<>>, warns |-> <<key>>]
    ELSE [text |-> PropertyGet(vs, key).str, warns |-> <<>>]

RECURSIVE WordRun(_, _)
\* \w+ is greedy: the number of consecutive word characters of t from i on.
WordRun(t, i) ==
    IF i <= Len(t) /\ t[i] \in WordChars THEN 1 + WordRun(t, i + 1) ELSE 0

\* Variant of MatchAt: the pattern \{\{(\w*)\}\}, which accepts an empty
\* identifier.
MatchAtEmptyId(t, i) ==
    LET n == WordRun(t, i + 2) IN
    /\ i + 3 <= Len(t)
    /\ t[i] = "{" /\ t[i + 1] = "{"
    /\ i + 3 + n <= Len(t)
    /\ t[i + 2 + n] = "}" /\ t[i + 3 + n] = "}"

\* The pattern \{\{(\w+)\}\} matches at position i of t.
MatchAt(t, i) ==
    LET n == WordRun(t, i + 2) IN
    /\ i + 3 < Len(t)
    /\ t[i] = "{" /\ t[i + 1] = "{"
    /\ n >= 1
    /\ i + 3 + n <= Len(t)
    /\ t[i + 2 + n] = "}" /\ t[i + 3 + n] = "}"

\* Length of the match at i: two braces, the identifier, two braces.
MatchLen(t, i) == WordRun(t, i + 2) + 4

\* The captured group of the match at i.
MatchKey(t, i) == Sub(t, i + 2, i + 1 + WordRun(t, i + 2))

RECURSIVE NextMatch(_, _)
\* The leftmost match starting at or after position from; 0 when none.
NextMatch(t, from) ==
    IF from > Len(t) THEN 0
    ELSE IF MatchAt(t, from) THEN from
    ELSE NextMatch(t, from + 1)

\* Variant of ReplaceFrom: the pattern without the global flag, which
\* replaces the first match only.
ReplaceFirstOnly(t, vs, pos) ==
    LET m == NextMatch(t, pos) IN
    IF m = 0 THEN [out |-> Sub(t, pos, Len(t)), warns |-> <<>>]
    ELSE LET r == Replacer(vs, MatchKey(t, m))
         IN [out |-> Sub(t, pos, m - 1) \o r.text
                       \o Sub(t, m + MatchLen(t, m), Len(t)),
             warns |-> r.warns]

RECURSIVE ReplaceFrom(_, _, _)
\* String.prototype.replace with a global pattern and a callback, from
\* position pos on: literal text is copied, each match is replaced by what
\* the callback returns, and the scan resumes after the match.
ReplaceFrom(t, vs, pos) ==
    LET m == NextMatch(t, pos) IN
    IF m = 0 THEN [out |-> Sub(t, pos, Len(t)), warns |-> <<>>]
    ELSE LET r == Replacer(vs, MatchKey(t, m))
             rest == ReplaceFrom(t, vs, m + MatchLen(t, m))
         IN [out |-> Sub(t, pos, m - 1) \o r.text \o rest.out,
             warns |-> r.warns \o rest.warns]

\* Variant of renderTemplate: the output of the pass is rendered once more.
renderTemplateTwice(t, vs) ==
    LET first == ReplaceFrom(t, vs, 1)
        second == ReplaceFrom(first.out, vs, 1)
    IN [out |-> second.out, warns |-> first.warns \o second.warns]

renderTemplate(t, vs) == ReplaceFrom(t, vs, 1)

-----------------------------------------------------------------------------
(* Specification of one call of renderTemplate *)

Init ==
    /\ template \in Templates
    /\ variables \in Mappings
    /\ rpc = "idle"
    /\ result = <<>>
    /\ warnings = <<>>
    /\ again = <<>>
    /\ env = <<>>
    /\ projFs = <<>>
    /\ ops = <<>>
    /\ log = <<>>
    /\ cpc = "unused"
    /\ exitCode = 0
    /\ git = <<>>
    /\ npm = <<>>
    /\ bpc = "unused"
    /\ bproc = <<>>
    /\ bpromise = <<>>
    /\ bcmds = <<>>
    /\ bclosed = <<>>
    /\ blog = <<>>
    /\ bexit = 0

\* Variant of Render: the callback consumes the entries it has used.
RenderConsuming ==
    /\ rpc = "idle"
    /\ rpc' = "done"
    /\ result' = renderTemplate(template, variables).out
    /\ warnings' = renderTemplate(template, variables).warns
    /\ variables' = [k \in {} |-> <<>>]
    /\ UNCHANGED <<template, again, cvars, bvars>>

Render ==
    /\ rpc = "idle"
    /\ rpc' = "done"
    /\ result' = renderTemplate(template, variables).out
    /\ warnings' = renderTemplate(template, variables).warns
    /\ UNCHANGED <<template, variables, again, cvars, bvars>>

Next == Render

Spec == Init /\ [][Next]_vars

-----------------------------------------------------------------------------
(* Specification of a call of renderTemplate followed by a call on its
   output *)

MaxNestSegs == 3

\* The pieces of the templates rendered twice: tokens, a literal word
\* character, and the brace pairs and single braces that may surround a
\* token.
NestSegments ==
    { TokA, TokB, TokProto, <<"c">>, <<"{", "{">>, <<"}", "}">>, <<"{">> }

NestTemplates ==
    { Concat(ss) : ss \in UNION { [1..n -> NestSegments] : n \in 0..MaxNestSegs } }

RerenderInit ==
    /\ template \in NestTemplates
    /\ variables \in Mappings
    /\ rpc = "idle"
    /\ result = <<>>
    /\ warnings = <<>>
    /\ again = <<>>
    /\ env = <<>>
    /\ projFs = <<>>
    /\ ops = <<>>
    /\ log = <<>>
    /\ cpc = "unused"
    /\ exitCode = 0
    /\ git = <<>>
    /\ npm = <<>>
    /\ bpc = "unused"
    /\ bproc = <<>>
    /\ bpromise = <<>>
    /\ bcmds = <<>>
    /\ bclosed = <<>>
    /\ blog = <<>>
    /\ bexit = 0

\* renderTemplate(renderTemplate(template, variables), variables): the
\* second call.
Rerender ==
    /\ rpc = "done"
    /\ rpc' = "rerendered"
    /\ again' = renderTemplate(result, variables)
    /\ UNCHANGED <<template, variables, result, warnings, cvars, bvars>>

RerenderNext ==
    \/ Render
    \/ Rerender

RerenderSpec == RerenderInit /\ [][RerenderNext]_vars

-----------------------------------------------------------------------------
(* createProject: files, processes and messages *)

\* Exit codes an external process closes with: 0..MaxExitCode.
MaxExitCode == 1
ExitCodes == 0..MaxExitCode

\* No exit code yet.
NoCode == 0 - 1

\* A file name is a sequence of parts, the suffix ".tpl" being a part of
\* its own; a path inside a directory is a sequence of names.
TplSuffix == ".tpl"

projectName == <<"P">>
IdProjectName == <<"p", "r", "o", "j", "e", "c", "t", "N", "a", "m", "e">>
TokProjectName ==
    <<"{", "{", "p", "r", "o", "j", "e", "c", "t", "N", "a", "m", "e", "}", "}">>

IndexTsTpl == <<"index", ".ts", TplSuffix>>
PackageJsonTpl == <<"package", ".json", TplSuffix>>
ReadmeMd == <<"README", ".md">>
ExtraTplDir == <<"extra", TplSuffix>>
\* .gitignore.tpl, kept in templates/pulumi by an earlier layout.
PulumiGitignoreTpl == <<".gitignore", TplSuffix>>
\* a.tplb.tpl and ab.tpl.tpl: names in which .tpl occurs twice.
InnerTplTpl == <<"a", TplSuffix, "b", TplSuffix>>
DoubleTplTpl == <<"a", "b", TplSuffix, TplSuffix>>

\* What templates/pulumi may hold: template files, a file that is not a
\* template and a subdirectory whose name ends in .tpl.
PulumiUniverse ==
    { [name |-> IndexTsTpl, isFile |-> TRUE],
      [name |-> PackageJsonTpl, isFile |-> TRUE],
      [name |-> ReadmeMd, isFile |-> TRUE],
      [name |-> ExtraTplDir, isFile |-> FALSE],
      [name |-> PulumiGitignoreTpl, isFile |-> TRUE],
      [name |-> InnerTplTpl, isFile |-> TRUE],
      [name |-> DoubleTplTpl, isFile |-> TRUE] }

\* The number of entries of templates/pulumi is at most MaxPulumiEntries.
MaxPulumiEntries == 2
PulumiListings ==
    { s \in SUBSET PulumiUniverse : Cardinality(s) <= MaxPulumiEntries }

\* The text of the files under templates/.
TemplateContent ==
    (IndexTsTpl :> (<<"/", "/", " ">> \o TokProjectName))
    @@ (PackageJsonTpl :> (TokProjectName \o <<" ">> \o TokA))
    @@ (ReadmeMd :> <<"r">>)
    @@ (PulumiGitignoreTpl :> <<"b", "i", "n", "/">>)
    @@ (InnerTplTpl :> (<<"i", " ">> \o TokProjectName))
    @@ (DoubleTplTpl :> (<<"d", " ">> \o TokProjectName))

GitignoreTplContent == <<"o", "u", "t", "/">> \o TokProjectName
NpmRcTplContent == <<"r", "=">> \o TokProjectName
PipelineTplContent == <<"n", ":", " ">> \o TokProjectName

\* The examples directory: its subdirectories and files, as paths relative
\* to it.
ExamplesTrees ==
    { [dirs |-> {}, files |-> {}],
      [dirs |-> {<<"net">>}, files |-> {<<"rg.ts">>, <<"net", "vnet.ts">>}],
      [dirs |-> {<<"net">>, <<"net", "hub">>, <<"empty">>},
       files |-> {<<"net", "hub", "fw.ts">>}] }

ExampleContent(path) == <<"example">> \o path

\* The file system outside the project directory, which a run only reads.
Environments ==
    [ projectDirExists : BOOLEAN,
      pulumi : PulumiListings,
      gitignoreTpl : BOOLEAN,
      npmRcTpl : BOOLEAN,
      pipelineTpl : BOOLEAN,
      examplesExists : BOOLEAN,
      examples : ExamplesTrees ]

GitignoreName == <<".gitignore">>
NpmRcName == <<".npmrc">>
PipelineName == <<"azure-pipelines", ".yml">>
PackageJsonName == <<"package", ".json">>
ExamplesName == <<"examples">>
OldFileName == <<"old", ".txt">>

\* The project directory before the run: absent, or present with a file.
InitialProjFs(e) ==
    IF e.projectDirExists
    THEN [dirs |-> {<<>>}, files |-> (<<OldFileName>> :> <<"o">>)]
    ELSE [dirs |-> {}, files |-> <<>>]

Entry(level, text, arg) == [level |-> level, text |-> text, arg |-> arg]

\* fs.writeFileSync(path, content) inside the project directory.
WriteFile(fs, path, content) ==
    [fs EXCEPT !.files = (path :> content) @@ fs.files]

\* fs.mkdirSync(path, { recursive: true }): the directory and its parents.
MkdirRecursive(fs, path) ==
    [fs EXCEPT !.dirs = fs.dirs \cup { SubSeq(path, 1, n) : n \in 0..Len(path) }]

\* Some enumeration of a finite set.
SetToSeq(S) ==
    CHOOSE s \in [1..Cardinality(S) -> S] : \A i, j \in 1..Cardinality(S) :
        s[i] = s[j] => i = j

\* All enumerations of a finite set.
Orders(S) ==
    { s \in [1..Cardinality(S) -> S] : \A i, j \in 1..Cardinality(S) :
        s[i] = s[j] => i = j }

-----------------------------------------------------------------------------
(* copyDirectory *)

\* The entries of directory rel of the tree: names of its subdirectories
\* and files.
ChildDirs(tree, rel) ==
    { d \in tree.dirs : Len(d) = Len(rel) + 1 /\ SubSeq(d, 1, Len(rel)) = rel }
ChildFiles(tree, rel) ==
    { f \in tree.files : Len(f) = Len(rel) + 1 /\ SubSeq(f, 1, Len(rel)) = rel }

RECURSIVE copyDirectory(_, _, _), CopyEntries(_, _, _, _)
\* copyDirectory(src/rel, dest/rel): creates the destination when it is
\* missing, then copies every file and recurses into every subdirectory.
\* The state is the project file system and the operations done so far.
copyDirectory(tree, rel, st) ==
    LET dest == <<ExamplesName>> \o rel
        made == IF dest \in st.fs.dirs THEN st
                ELSE [fs |-> MkdirRecursive(st.fs, dest),
                      ops |-> Append(st.ops, [op |-> "mkdir", path |-> dest])]
    IN CopyEntries(tree, rel,
                   SetToSeq(ChildDirs(tree, rel) \cup ChildFiles(tree, rel)),
                   made)

RECURSIVE CopyEntriesFilesOnly(_, _, _, _)
\* Variant of CopyEntries: subdirectories are skipped.
CopyEntriesFilesOnly(tree, rel, entries, st) ==
    IF entries = <<>> THEN st
    ELSE LET e == Head(entries)
             after ==
                 IF e \in tree.dirs
                 THEN st
                 ELSE [fs |-> WriteFile(st.fs, <<ExamplesName>> \o e,
                                        ExampleContent(e)),
                       ops |-> Append(st.ops,
                                      [op |-> "copy",
                                       path |-> <<ExamplesName>> \o e])]
         IN CopyEntriesFilesOnly(tree, rel, Tail(entries), after)

\* The loop over the entries of one directory.
CopyEntries(tree, rel, entries, st) ==
    IF entries = <<>> THEN st
    ELSE LET e == Head(entries)
             after ==
                 IF e \in tree.dirs
                 THEN copyDirectory(tree, e, st)
                 ELSE [fs |-> WriteFile(st.fs, <<ExamplesName>> \o e,
                                        ExampleContent(e)),
                       ops |-> Append(st.ops,
                                      [op |-> "copy",
                                       path |-> <<ExamplesName>> \o e])]
         IN CopyEntries(tree, rel, Tail(entries), after)

-----------------------------------------------------------------------------
(* createProject *)

\* process.exit(code)
Exit(code) == cpc' = "exited" /\ exitCode' = code

\* Variant of createProject: the error is logged but the process is not
\* terminated.
createProjectWithoutExit ==
    /\ cpc = "createProject"
    /\ IF <<>> \in projFs.dirs
       THEN log' = Append(log, Entry("error",
                       "Error: Project directory already exists.", projectName))
       ELSE UNCHANGED log
    /\ cpc' = "createProjectDirectory"
    /\ UNCHANGED <<env, projFs, ops, exitCode, git, npm>>

\* createProject, lines 28-33: the existence check.
createProject ==
    /\ cpc = "createProject"
    /\ IF <<>> \in projFs.dirs
       THEN /\ log' = Append(log, Entry("error",
                       "Error: Project directory already exists.", projectName))
            /\ Exit(1)
       ELSE /\ cpc' = "createProjectDirectory"
            /\ UNCHANGED <<log, exitCode>>
    /\ UNCHANGED <<env, projFs, ops, git, npm>>

\* Variant of createProjectDirectory: the directory is not created.
createProjectDirectoryOmitted ==
    /\ cpc = "createProjectDirectory"
    /\ log' = Append(log, Entry("log", "Created project directory", <<>>))
    /\ cpc' = "initializeGitRepository"
    /\ UNCHANGED <<env, projFs, ops, exitCode, git, npm>>

createProjectDirectory ==
    /\ cpc = "createProjectDirectory"
    /\ projFs' = MkdirRecursive(projFs, <<>>)
    /\ ops' = Append(ops, [op |-> "mkdir", path |-> <<>>])
    /\ log' = Append(log, Entry("log", "Created project directory", <<>>))
    /\ cpc' = "initializeGitRepository"
    /\ UNCHANGED <<env, exitCode, git, npm>>

\* Variant of initializeGitRepository: the process is run to its end and
\* its failure reported before the call returns.
initializeGitRepositoryAwaited ==
    /\ cpc = "initializeGitRepository"
    /\ \E code \in ExitCodes :
          /\ git' = [state |-> "exited", code |-> code, closed |-> TRUE]
          /\ log' = IF code # 0
                    THEN Append(log, Entry("error",
                                   "git init failed with exit code", <<code>>))
                    ELSE log
    /\ ops' = Append(ops, [op |-> "spawn", path |-> <<"git", "init">>])
    /\ cpc' = "renderProjectTemplates"
    /\ UNCHANGED <<env, projFs, exitCode, npm>>

\* spawn('git', ['init']) and the registration of the close handler; the
\* call returns at once.
initializeGitRepository ==
    /\ cpc = "initializeGitRepository"
    /\ git' = [state |-> "running", code |-> NoCode, closed |-> FALSE]
    /\ ops' = Append(ops, [op |-> "spawn", path |-> <<"git", "init">>])
    /\ cpc' = "renderProjectTemplates"
    /\ UNCHANGED <<env, projFs, log, exitCode, npm>>

\* The name ends in .tpl.
EndsWithTpl(name) == Len(name) >= 1 /\ name[Len(name)] = TplSuffix

RECURSIVE RemoveFirstTpl(_)
\* templateFile.replace('.tpl', ''): the first occurrence is removed.
RemoveFirstTpl(name) ==
    IF name = <<>> THEN <<>>
    ELSE IF Head(name) = TplSuffix THEN Tail(name)
    ELSE <<Head(name)>> \o RemoveFirstTpl(Tail(name))

RECURSIVE RenderEach(_, _)
\* The forEach of renderProjectTemplates: read, render, write.
RenderEach(files, st) ==
    IF files = <<>> THEN st
    ELSE LET templateFile == Head(files)
             outputPath == <<RemoveFirstTpl(templateFile)>>
             rendered == renderTemplate(TemplateContent[templateFile],
                                        (IdProjectName :> projectName))
         IN RenderEach(Tail(files),
               [fs |-> WriteFile(st.fs, outputPath, rendered.out),
                ops |-> st.ops \o <<[op |-> "read", path |-> <<templateFile>>],
                                    [op |-> "write", path |-> outputPath]>>,
                log |-> st.log \o
                        [i \in 1..Len(rendered.warns) |->
                            Entry("warn",
                                  "Warning: No value provided for placeholder",
                                  rendered.warns[i])]])

\* The names readdirSync returns that are regular files ending in .tpl.
PulumiTemplateFiles(e) ==
    { d.name : d \in { x \in e.pulumi : x.isFile /\ EndsWithTpl(x.name) } }

\* Variant of renderProjectTemplates: the missing templates are reported
\* and the run goes on.
renderProjectTemplatesWithoutExit ==
    /\ cpc = "renderProjectTemplates"
    /\ IF PulumiTemplateFiles(env) = {}
       THEN /\ log' = log \o
                  <<Entry("error", "Error: No template files found", <<>>),
                    Entry("error",
                          "Please ensure the templates directory contains .tpl files.",
                          <<>>)>>
            /\ cpc' = "copyExamplesDirectory"
            /\ UNCHANGED <<projFs, ops, exitCode>>
       ELSE \E files \in Orders(PulumiTemplateFiles(env)) :
              LET st == RenderEach(files,
                                   [fs |-> projFs, ops |-> ops, log |-> log])
              IN /\ projFs' = st.fs
                 /\ ops' = st.ops
                 /\ log' = st.log
                 /\ cpc' = "copyExamplesDirectory"
                 /\ UNCHANGED exitCode
    /\ UNCHANGED <<env, git, npm>>

\* readdirSync returns the entries in an order the platform chooses.
renderProjectTemplates ==
    /\ cpc = "renderProjectTemplates"
    /\ IF PulumiTemplateFiles(env) = {}
       THEN /\ log' = log \o
                  <<Entry("error", "Error: No template files found", <<>>),
                    Entry("error",
                          "Please ensure the templates directory contains .tpl files.",
                          <<>>)>>
            /\ Exit(1)
            /\ UNCHANGED <<projFs, ops>>
       ELSE \E files \in Orders(PulumiTemplateFiles(env)) :
              LET st == RenderEach(files,
                                   [fs |-> projFs, ops |-> ops, log |-> log])
              IN /\ projFs' = st.fs
                 /\ ops' = st.ops
                 /\ log' = st.log
                 /\ cpc' = "copyExamplesDirectory"
                 /\ UNCHANGED exitCode
    /\ UNCHANGED <<env, git, npm>>

copyExamplesDirectory ==
    /\ cpc = "copyExamplesDirectory"
    /\ IF env.examplesExists
       THEN LET st == copyDirectory(env.examples, <<>>,
                                    [fs |-> projFs, ops |-> ops])
            IN /\ projFs' = st.fs
               /\ ops' = st.ops
               /\ log' = Append(log, Entry("log",
                             "Copied resource examples to project.", <<>>))
       ELSE /\ log' = Append(log, Entry("warn",
                             "No examples directory found to copy.", <<>>))
            /\ UNCHANGED <<projFs, ops>>
    /\ cpc' = "createGitIgnore"
    /\ UNCHANGED <<env, exitCode, git, npm>>

DefaultGitignore == <<"node_modules/", "\n", "dist/", "\n">>

\* Variant of createGitIgnore: the template is rendered with projectName.
createGitIgnoreRendered ==
    /\ cpc = "createGitIgnore"
    /\ IF env.gitignoreTpl
       THEN /\ projFs' = WriteFile(projFs, <<GitignoreName>>,
                            renderTemplate(GitignoreTplContent,
                                           (IdProjectName :> projectName)).out)
            /\ ops' = ops \o <<[op |-> "read", path |-> <<<<".gitignore", TplSuffix>>>>],
                               [op |-> "write", path |-> <<GitignoreName>>]>>
       ELSE /\ projFs' = WriteFile(projFs, <<GitignoreName>>, DefaultGitignore)
            /\ ops' = Append(ops, [op |-> "write", path |-> <<GitignoreName>>])
    /\ cpc' = "createNpmRcFile"
    /\ UNCHANGED <<env, log, exitCode, git, npm>>

createGitIgnore ==
    /\ cpc = "createGitIgnore"
    /\ IF env.gitignoreTpl
       THEN /\ projFs' = WriteFile(projFs, <<GitignoreName>>, GitignoreTplContent)
            /\ ops' = ops \o <<[op |-> "read", path |-> <<<<".gitignore", TplSuffix>>>>],
                               [op |-> "write", path |-> <<GitignoreName>>]>>
       ELSE /\ projFs' = WriteFile(projFs, <<GitignoreName>>, DefaultGitignore)
            /\ ops' = Append(ops, [op |-> "write", path |-> <<GitignoreName>>])
    /\ cpc' = "createNpmRcFile"
    /\ UNCHANGED <<env, log, exitCode, git, npm>>

\* Variant of createNpmRcFile: an empty .npmrc is written when the template
\* is missing.
createNpmRcFileWritesEmpty ==
    /\ cpc = "createNpmRcFile"
    /\ IF env.npmRcTpl
       THEN /\ projFs' = WriteFile(projFs, <<NpmRcName>>, NpmRcTplContent)
            /\ ops' = ops \o <<[op |-> "read", path |-> <<<<".npmrc", TplSuffix>>>>],
                               [op |-> "write", path |-> <<NpmRcName>>]>>
            /\ UNCHANGED log
       ELSE /\ projFs' = WriteFile(projFs, <<NpmRcName>>, <<>>)
            /\ ops' = Append(ops, [op |-> "write", path |-> <<NpmRcName>>])
            /\ log' = Append(log, Entry("error",
                             "Error: .npmrc template not found", <<>>))
    /\ cpc' = "generateAzurePipelineYaml"
    /\ UNCHANGED <<env, exitCode, git, npm>>

createNpmRcFile ==
    /\ cpc = "createNpmRcFile"
    /\ IF env.npmRcTpl
       THEN /\ projFs' = WriteFile(projFs, <<NpmRcName>>, NpmRcTplContent)
            /\ ops' = ops \o <<[op |-> "read", path |-> <<<<".npmrc", TplSuffix>>>>],
                               [op |-> "write", path |-> <<NpmRcName>>]>>
            /\ UNCHANGED log
       ELSE /\ log' = Append(log, Entry("error",
                             "Error: .npmrc template not found", <<>>))
            /\ UNCHANGED <<projFs, ops>>
    /\ cpc' = "generateAzurePipelineYaml"
    /\ UNCHANGED <<env, exitCode, git, npm>>

\* Variant of generateAzurePipelineYaml: a missing template ends the run.
generateAzurePipelineYamlFatal ==
    /\ cpc = "generateAzurePipelineYaml"
    /\ IF env.pipelineTpl
       THEN /\ projFs' = WriteFile(projFs, <<PipelineName>>, PipelineTplContent)
            /\ ops' = ops \o <<[op |-> "read",
                                path |-> <<<<"azure-pipelines", ".yml", TplSuffix>>>>],
                               [op |-> "write", path |-> <<PipelineName>>]>>
            /\ cpc' = "createDefaultPackageJson"
            /\ UNCHANGED <<log, exitCode>>
       ELSE /\ log' = Append(log, Entry("error",
                             "Error: Azure Pipeline template not found", <<>>))
            /\ Exit(1)
            /\ UNCHANGED <<projFs, ops>>
    /\ UNCHANGED <<env, git, npm>>

generateAzurePipelineYaml ==
    /\ cpc = "generateAzurePipelineYaml"
    /\ IF env.pipelineTpl
       THEN /\ projFs' = WriteFile(projFs, <<PipelineName>>, PipelineTplContent)
            /\ ops' = ops \o <<[op |-> "read",
                                path |-> <<<<"azure-pipelines", ".yml", TplSuffix>>>>],
                               [op |-> "write", path |-> <<PipelineName>>]>>
            /\ UNCHANGED log
       ELSE /\ log' = Append(log, Entry("error",
                             "Error: Azure Pipeline template not found", <<>>))
            /\ UNCHANGED <<projFs, ops>>
    /\ cpc' = "createDefaultPackageJson"
    /\ UNCHANGED <<env, exitCode, git, npm>>

\* JSON.stringify(defaultPackageJson, null, 2), in short.
DefaultPackageJson ==
    <<"name:">> \o projectName
        \o <<"version:1.0.0", "dependencies:lodash:^4.17.21">>

\* Variant of createDefaultPackageJson: the file is written whether or not
\* it exists.
createDefaultPackageJsonAlways ==
    /\ cpc = "createDefaultPackageJson"
    /\ projFs' = WriteFile(projFs, <<PackageJsonName>>, DefaultPackageJson)
    /\ ops' = Append(ops, [op |-> "write", path |-> <<PackageJsonName>>])
    /\ cpc' = "installNpmDependencies"
    /\ UNCHANGED <<env, log, exitCode, git, npm>>

createDefaultPackageJson ==
    /\ cpc = "createDefaultPackageJson"
    /\ IF <<PackageJsonName>> \notin DOMAIN projFs.files
       THEN /\ projFs' = WriteFile(projFs, <<PackageJsonName>>, DefaultPackageJson)
            /\ ops' = Append(ops, [op |-> "write", path |-> <<PackageJsonName>>])
       ELSE UNCHANGED <<projFs, ops>>
    /\ cpc' = "installNpmDependencies"
    /\ UNCHANGED <<env, log, exitCode, git, npm>>

\* spawn('npm', ['install']) and the registration of the close handler;
\* createProject returns after it.
installNpmDependencies ==
    /\ cpc = "installNpmDependencies"
    /\ log' = Append(log, Entry("log", "Installing npm dependencies...", <<>>))
    /\ npm' = [state |-> "running", code |-> NoCode, closed |-> FALSE]
    /\ ops' = Append(ops, [op |-> "spawn", path |-> <<"npm", "install">>])
    /\ cpc' = "returned"
    /\ UNCHANGED <<env, projFs, exitCode, git>>

\* The git process ends, at a time of its own.
gitInitExits ==
    /\ git.state = "running"
    /\ \E code \in ExitCodes : git' = [git EXCEPT !.state = "exited", !.code = code]
    /\ UNCHANGED <<env, projFs, ops, log, cpc, exitCode, npm>>

\* The npm process ends, at a time of its own.
npmInstallExits ==
    /\ npm.state = "running"
    /\ \E code \in ExitCodes : npm' = [npm EXCEPT !.state = "exited", !.code = code]
    /\ UNCHANGED <<env, projFs, ops, log, cpc, exitCode, git>>

\* The close handler of git init: the event loop runs it once the process
\* has ended and createProject has returned.
gitInitClose ==
    /\ cpc = "returned"
    /\ git.state = "exited" /\ ~git.closed
    /\ git' = [git EXCEPT !.closed = TRUE]
    /\ log' = IF git.code # 0
              THEN Append(log, Entry("error", "git init failed with exit code",
                                     <<git.code>>))
              ELSE log
    /\ UNCHANGED <<env, projFs, ops, cpc, exitCode, npm>>

\* Variant of npmInstallClose: success is reported only when git init has
\* not failed.
npmInstallCloseGitAware ==
    /\ cpc = "returned"
    /\ npm.state = "exited" /\ ~npm.closed
    /\ npm' = [npm EXCEPT !.closed = TRUE]
    /\ log' = IF npm.code = 0 /\ ~(git.state = "exited" /\ git.code # 0)
              THEN log \o <<Entry("log", "Project setup complete!", <<>>),
                            Entry("log", "Summary:", projectName),
                            Entry("log", "Next steps:", projectName),
                            Entry("log", "Happy building!", <<>>)>>
              ELSE Append(log, Entry("error", "npm install failed with exit code",
                                     <<npm.code>>))
    /\ UNCHANGED <<env, projFs, ops, cpc, exitCode, git>>

\* The close handler of npm install.
npmInstallClose ==
    /\ cpc = "returned"
    /\ npm.state = "exited" /\ ~npm.closed
    /\ npm' = [npm EXCEPT !.closed = TRUE]
    /\ log' = IF npm.code = 0
              THEN log \o <<Entry("log", "Project setup complete!", <<>>),
                            Entry("log", "Summary:", projectName),
                            Entry("log", "Next steps:", projectName),
                            Entry("log", "Happy building!", <<>>)>>
              ELSE Append(log, Entry("error", "npm install failed with exit code",
                                     <<npm.code>>))
    /\ UNCHANGED <<env, projFs, ops, cpc, exitCode, git>>

-----------------------------------------------------------------------------
(* Specification of one run of createProject *)

CreateProjectInit ==
    /\ env \in Environments
    /\ projFs = InitialProjFs(env)
    /\ ops = <<>>
    /\ log = <<>>
    /\ cpc = "createProject"
    /\ exitCode = NoCode
    /\ git = [state |-> "unspawned", code |-> NoCode, closed |-> FALSE]
    /\ npm = [state |-> "unspawned", code |-> NoCode, closed |-> FALSE]
    /\ template = <<>>
    /\ variables = <<>>
    /\ rpc = "unused"
    /\ result = <<>>
    /\ warnings = <<>>
    /\ again = <<>>
    /\ bpc = "unused"
    /\ bproc = <<>>
    /\ bpromise = <<>>
    /\ bcmds = <<>>
    /\ bclosed = <<>>
    /\ blog = <<>>
    /\ bexit = 0

CreateProjectNext ==
    \/ createProject /\ UNCHANGED <<rvars, bvars>>
    \/ createProjectDirectory /\ UNCHANGED <<rvars, bvars>>
    \/ initializeGitRepository /\ UNCHANGED <<rvars, bvars>>
    \/ renderProjectTemplates /\ UNCHANGED <<rvars, bvars>>
    \/ copyExamplesDirectory /\ UNCHANGED <<rvars, bvars>>
    \/ createGitIgnore /\ UNCHANGED <<rvars, bvars>>
    \/ createNpmRcFile /\ UNCHANGED <<rvars, bvars>>
    \/ generateAzurePipelineYaml /\ UNCHANGED <<rvars, bvars>>
    \/ createDefaultPackageJson /\ UNCHANGED <<rvars, bvars>>
    \/ installNpmDependencies /\ UNCHANGED <<rvars, bvars>>
    \/ gitInitExits /\ UNCHANGED <<rvars, bvars>>
    \/ npmInstallExits /\ UNCHANGED <<rvars, bvars>>
    \/ gitInitClose /\ UNCHANGED <<rvars, bvars>>
    \/ npmInstallClose /\ UNCHANGED <<rvars, bvars>>

CreateProjectSpec == CreateProjectInit /\ [][CreateProjectNext]_vars

-----------------------------------------------------------------------------
(* The build-and-link script *)

\* Exit codes a command of the script closes with: 0..MaxScriptExitCode.
MaxScriptExitCode == 17
ScriptExitCodes == 0..MaxScriptExitCode

NpmRunBuild == <<"npm", "run", "build">>
NpmLink == <<"npm", "link">>

\* runCommand up to the return of the promise: the command is spawned and
\* the close handler registered.
RunCommand(command) ==
    /\ bproc' = [cmd |-> command, state |-> "running", code |-> NoCode]
    /\ bcmds' = Append(bcmds, command)
    /\ bpromise' = [state |-> "pending", cmd |-> command, code |-> NoCode]

\* main up to the first await.
main ==
    /\ bpc = "main"
    /\ blog' = Append(blog, Entry("log", "Running \"npm run build\"...", <<>>))
    /\ RunCommand(NpmRunBuild)
    /\ bpc' = "awaitBuild"
    /\ UNCHANGED <<bclosed, bexit>>

\* The spawned command ends, at a time of its own.
commandExits ==
    /\ bpc \in {"awaitBuild", "awaitLink"}
    /\ bproc.state = "running"
    /\ \E code \in ScriptExitCodes :
          bproc' = [bproc EXCEPT !.state = "exited", !.code = code]
    /\ UNCHANGED <<bpc, bpromise, bcmds, bclosed, blog, bexit>>

\* Variant of runCommandClose: the promise is resolved whatever the code.
runCommandCloseIgnoringCode ==
    /\ bpc \in {"awaitBuild", "awaitLink"}
    /\ bproc.state = "exited"
    /\ bpromise.state = "pending"
    /\ bclosed' = Append(bclosed, [cmd |-> bproc.cmd, code |-> bproc.code])
    /\ bpromise' = [bpromise EXCEPT !.state = "resolved"]
    /\ UNCHANGED <<bpc, bproc, bcmds, blog, bexit>>

\* The close handler of runCommand: resolve on code 0, reject otherwise.
runCommandClose ==
    /\ bpc \in {"awaitBuild", "awaitLink"}
    /\ bproc.state = "exited"
    /\ bpromise.state = "pending"
    /\ bclosed' = Append(bclosed, [cmd |-> bproc.cmd, code |-> bproc.code])
    /\ bpromise' = IF bproc.code = 0
                   THEN [bpromise EXCEPT !.state = "resolved"]
                   ELSE [bpromise EXCEPT !.state = "rejected",
                                         !.code = bproc.code]
    /\ UNCHANGED <<bpc, bproc, bcmds, blog, bexit>>

\* main from the first await to the second.
mainAfterBuild ==
    /\ bpc = "awaitBuild"
    /\ bpromise.state = "resolved"
    /\ blog' = blog \o
          <<Entry("log", "\"npm run build\" completed successfully.", <<>>),
            Entry("log", "Running \"npm link\"...", <<>>)>>
    /\ RunCommand(NpmLink)
    /\ bpc' = "awaitLink"
    /\ UNCHANGED <<bclosed, bexit>>

\* main after the second await.
mainAfterLink ==
    /\ bpc = "awaitLink"
    /\ bpromise.state = "resolved"
    /\ blog' = Append(blog,
                 Entry("log", "\"npm link\" completed successfully.", <<>>))
    /\ bpc' = "done"
    /\ UNCHANGED <<bproc, bpromise, bcmds, bclosed, bexit>>

\* The catch block of main.
mainCatch ==
    /\ bpc \in {"awaitBuild", "awaitLink"}
    /\ bpromise.state = "rejected"
    /\ blog' = Append(blog, Entry("error", "Error during build and link process:",
                                  bpromise.cmd \o <<"failed with code",
                                                    bpromise.code>>))
    /\ bexit' = 1
    /\ bpc' = "exited"
    /\ UNCHANGED <<bproc, bpromise, bcmds, bclosed>>

BuildLinkInit ==
    /\ bpc = "main"
    /\ bproc = [cmd |-> <<>>, state |-> "none", code |-> NoCode]
    /\ bpromise = [state |-> "none", cmd |-> <<>>, code |-> NoCode]
    /\ bcmds = <<>>
    /\ bclosed = <<>>
    /\ blog = <<>>
    /\ bexit = NoCode
    /\ template = <<>>
    /\ variables = <<>>
    /\ rpc = "unused"
    /\ result = <<>>
    /\ warnings = <<>>
    /\ again = <<>>
    /\ env = <<>>
    /\ projFs = <<>>
    /\ ops = <<>>
    /\ log = <<>>
    /\ cpc = "unused"
    /\ exitCode = 0
    /\ git = <<>>
    /\ npm = <<>>

BuildLinkNext ==
    \/ main /\ UNCHANGED <<rvars, cvars>>
    \/ commandExits /\ UNCHANGED <<rvars, cvars>>
    \/ runCommandClose /\ UNCHANGED <<rvars, cvars>>
    \/ mainAfterBuild /\ UNCHANGED <<rvars, cvars>>
    \/ mainAfterLink /\ UNCHANGED <<rvars, cvars>>
    \/ mainCatch /\ UNCHANGED <<rvars, cvars>>

BuildLinkSpec == BuildLinkInit /\ [][BuildLinkNext]_vars

-----------------------------------------------------------------------------
(* Properties of renderTemplate *)

\* The identifier characters as the specification names them.
Letters ==
    {"a", "b", "c", "d", "e", "f", "g", "h", "i", "j", "k", "l", "m", "n",
     "o", "p", "q", "r", "s", "t", "u", "v", "w", "x", "y", "z", "A", "B",
     "C", "D", "E", "F", "G", "H", "I", "J", "K", "L", "M", "N", "O", "P",
     "Q", "R", "S", "T", "U", "V", "W", "X", "Y", "Z"}
Digits == {"0", "1", "2", "3", "4", "5", "6", "7", "8", "9"}
IdentChars == Letters \cup Digits \cup {"_"}

\* t has, at position i, a token {{id}} whose identifier has n characters.
IsToken(t, i, n) ==
    /\ t[i] = "{"
    /\ n >= 1
    /\ i + n + 3 <= Len(t)
    /\ t[i + 1] = "{"
    /\ \A k \in 1..n : t[i + 1 + k] \in IdentChars
    /\ t[i + n + 2] = "}" /\ t[i + n + 3] = "}"

TokenStarts(t) == { i \in 1..Len(t) : \E n \in 1..Len(t) : IsToken(t, i, n) }
TokenIdLen(t, i) == CHOOSE n \in 1..Len(t) : IsToken(t, i, n)
TokenId(t, i) == Sub(t, i + 2, i + 1 + TokenIdLen(t, i))
TokenEnd(t, i) == i + TokenIdLen(t, i) + 3

\* The positions of t that lie inside a token.
TokenPositions(t) == UNION { i..TokenEnd(t, i) : i \in TokenStarts(t) }

\* The text before position i and the text after position j.
Before(t, i) == Sub(t, 1, i - 1)
After(t, j) == Sub(t, j + 1, Len(t))

\* The output is the rendered text before positions i..j, then mid, then
\* the rendered text after them.
OutputSplitsAt(i, j, mid) ==
    result = renderTemplate(Before(template, i), variables).out
             \o mid
             \o renderTemplate(After(template, j), variables).out

\* The warnings are those of the text before i followed by those of the
\* text after j.
WarningsSplitAt(i, j, mid) ==
    warnings = renderTemplate(Before(template, i), variables).warns
               \o mid
               \o renderTemplate(After(template, j), variables).warns

\* C1: every token whose identifier is a key of the mapping is replaced by
\* the value mapped to that identifier, each occurrence looked up on its
\* own, and every character outside the tokens is kept, in order.
C1_MappedTokensReplacedLiteralsKept ==
    rpc = "done" =>
        /\ \A i \in TokenStarts(template) :
              TokenId(template, i) \in DOMAIN variables =>
                  OutputSplitsAt(i, TokenEnd(template, i),
                                 variables[TokenId(template, i)])
        /\ \A p \in (1..Len(template)) \ TokenPositions(template) :
              OutputSplitsAt(p, p, <<template[p]>>)

\* Two tokens with different identifiers, mapped to different values, and
\* a literal character have been rendered.
C1_Witness ==
    /\ rpc = "done"
    /\ \E i, j \in TokenStarts(template) :
          /\ TokenId(template, i) # TokenId(template, j)
          /\ TokenId(template, i) \in DOMAIN variables
          /\ TokenId(template, j) \in DOMAIN variables
          /\ variables[TokenId(template, i)] # variables[TokenId(template, j)]
    /\ (1..Len(template)) \ TokenPositions(template) # {}
    /\ result # template

\* C2: every token whose identifier is not a key of the mapping is
\* replaced by the empty string, the rest being rendered normally.
C2_UnmappedTokensRenderEmpty ==
    rpc = "done" =>
        \A i \in TokenStarts(template) :
            TokenId(template, i) \notin DOMAIN variables =>
                OutputSplitsAt(i, TokenEnd(template, i), <<>>)

RECURSIVE UnresolvedFrom(_, _, _)
\* The identifiers of the tokens of t from position i on that are not keys
\* of the mapping, one per occurrence, in order.
UnresolvedFrom(t, vs, i) ==
    IF i > Len(t) THEN <<>>
    ELSE IF i \in TokenStarts(t) /\ TokenId(t, i) \notin DOMAIN vs
         THEN <<TokenId(t, i)>> \o UnresolvedFrom(t, vs, i + 1)
         ELSE UnresolvedFrom(t, vs, i + 1)

\* C3: one warning per occurrence of a token whose identifier is not a key
\* of the mapping, naming that identifier, and no other warning.
C3_OneWarningPerUnresolvedToken ==
    rpc = "done" => warnings = UnresolvedFrom(template, variables, 1)

\* C4: a template with no token is returned as it is, without a warning.
C4_NoTokenIdentity ==
    (rpc = "done" /\ TokenStarts(template) = {}) =>
        (result = template /\ warnings = <<>>)

\* A template with braces but no token has been rendered with a mapping
\* that has keys.
C4_Witness ==
    /\ rpc = "done"
    /\ TokenStarts(template) = {}
    /\ \E p \in 1..Len(template) : template[p] = "{"
    /\ \E p \in 1..Len(template) : template[p] = "}"
    /\ DOMAIN variables # {}
    /\ result = template

\* The brace sequences that are not tokens.
MalformedShapes ==
    { <<"{">>, <<"{", "{", "}", "}">>,
      <<"{", "{", " ", "a", " ", "}", "}">>,
      <<"{", "{", "a", "-", "b", "}", "}">> }

\* Shape s occurs in t at position i, outside the token positions tp.
ShapeAt(t, tp, s, i) ==
    /\ i + Len(s) - 1 <= Len(t)
    /\ Sub(t, i, i + Len(s) - 1) = s
    /\ (i..(i + Len(s) - 1)) \cap tp = {}

\* C5: a single brace, {{}}, {{ a }} and {{a-b}} that are not part of a
\* token appear unchanged in the output and cause no warning.
C5_MalformedBracesPassThrough ==
    rpc = "done" =>
        LET tp == TokenPositions(template) IN
        \A s \in MalformedShapes : \A i \in 1..Len(template) :
            ShapeAt(template, tp, s, i) =>
                /\ OutputSplitsAt(i, i + Len(s) - 1, s)
                /\ WarningsSplitAt(i, i + Len(s) - 1, <<>>)

\* Each of the four shapes has been rendered, with a mapping that has the
\* key a, next to a token that was replaced.
C5_Witness ==
    /\ rpc = "done"
    /\ <<"a">> \in DOMAIN variables
    /\ TokenStarts(template) # {}
    /\ \E s \in MalformedShapes \ {<<"{">>} : \E i \in 1..Len(template) :
          ShapeAt(template, TokenPositions(template), s, i)
    /\ \E i \in 1..Len(template) :
          /\ ShapeAt(template, TokenPositions(template), <<"{">>, i)
          /\ i + 1 \in TokenStarts(template)

\* C6: a mapped value that itself contains a token is put into the output
\* as it is, and causes no warning.
C6_NoRecursiveSubstitution ==
    rpc = "done" =>
        \A i \in TokenStarts(template) :
            (/\ TokenId(template, i) \in DOMAIN variables
             /\ TokenStarts(variables[TokenId(template, i)]) # {}) =>
                /\ OutputSplitsAt(i, TokenEnd(template, i),
                                  variables[TokenId(template, i)])
                /\ WarningsSplitAt(i, TokenEnd(template, i), <<>>)

\* A token was replaced by a value containing a token whose identifier is
\* not a key of the mapping; the output holds that token and there is no
\* warning.
C6_Witness ==
    /\ rpc = "done"
    /\ \E i \in TokenStarts(template) :
          /\ TokenId(template, i) \in DOMAIN variables
          /\ \E q \in TokenStarts(variables[TokenId(template, i)]) :
                TokenId(variables[TokenId(template, i)], q)
                    \notin DOMAIN variables
    /\ TokenStarts(result) # {}
    /\ warnings = <<>>

\* The identifiers the tokens of t reference.
Referenced(t) == { TokenId(t, i) : i \in TokenStarts(t) }

\* Two mappings agree on identifier k: both map it to the same value, or
\* neither has it.
AgreeOn(m1, m2, k) ==
    /\ k \in DOMAIN m1 <=> k \in DOMAIN m2
    /\ k \in DOMAIN m1 => m1[k] = m2[k]

\* C7: a mapping that agrees with the one used on every identifier the
\* template references gives the same output and the same warnings.
C7_DependsOnReferencedOnly ==
    rpc = "done" =>
        LET ref == Referenced(template) IN
        \A m2 \in Mappings :
            (\A k \in ref : AgreeOn(variables, m2, k)) =>
                renderTemplate(template, m2) =
                    [out |-> result, warns |-> warnings]

\* A template with tokens was rendered with a mapping for which another
\* mapping, with different keys, agrees on everything referenced.
C7_Witness ==
    /\ rpc = "done"
    /\ Referenced(template) # {}
    /\ warnings # <<>>
    /\ \E m2 \in Mappings :
          /\ DOMAIN m2 # DOMAIN variables
          /\ \A k \in Referenced(template) : AgreeOn(variables, m2, k)

\* s is a string.
IsString(s) == \A p \in 1..Len(s) : s[p] \in STRING

\* A step returns a string and leaves the template and the mapping alone.
ReturnsStringKeepsArguments ==
    /\ rpc' = "done"
    /\ IsString(result')
    /\ template' = template
    /\ variables' = variables

\* C8: every call returns a string, without raising an error, and leaves
\* the template and the mapping as they were.
C8_TotalAndFrame ==
    [][rpc = "idle" => ReturnsStringKeepsArguments]_rvars

\* A call has returned for a template with an unresolved token.
C8_Witness ==
    /\ rpc = "done"
    /\ warnings # <<>>
    /\ DOMAIN variables # {}
    /\ IsString(result)

\* No value of the mapping holds a brace.
BraceFreeValues(vs) ==
    \A k \in DOMAIN vs : \A i \in 1..Len(vs[k]) : vs[k][i] \notin {"{", "}"}

\* The output holds no token, and the second call returns it unchanged
\* without a warning.
OutputTokenFreeAndStable ==
    /\ rpc \in {"done", "rerendered"} => TokenStarts(result) = {}
    /\ rpc = "rerendered" => (again.out = result /\ again.warns = <<>>)

\* C21 as stated: for every template and every mapping whose values hold
\* no brace, the output holds no token, and rendering it again with the
\* same mapping returns it unchanged and warns of nothing.
C21_BraceFreeValuesRenderIdempotent ==
    BraceFreeValues(variables) => OutputTokenFreeAndStable

\* Every brace of t lies inside a token.
BracesOnlyInTokens(t) ==
    \A p \in (1..Len(t)) \ TokenPositions(t) : t[p] \notin {"{", "}"}

\* C21, amended: for every template whose braces all belong to tokens and
\* every mapping whose values hold no brace, the output holds no token, and
\* rendering it again with the same mapping returns it unchanged and warns
\* of nothing.
C21_IdempotentWhenBracesOnlyInTokens ==
    (BraceFreeValues(variables) /\ BracesOnlyInTokens(template))
        => OutputTokenFreeAndStable

\* A template of literal text and tokens, one of them mapped to a value
\* that is not empty and one without a value, has been rendered twice.
C21_Witness ==
    /\ rpc = "rerendered"
    /\ BraceFreeValues(variables)
    /\ BracesOnlyInTokens(template)
    /\ (1..Len(template)) \ TokenPositions(template) # {}
    /\ \E i, j \in TokenStarts(template) :
          /\ TokenId(template, i) \in DOMAIN variables
          /\ variables[TokenId(template, i)] # <<>>
          /\ TokenId(template, j) \notin DOMAIN variables
          /\ TokenId(template, j) \notin DOMAIN ObjectPrototype
    /\ warnings # <<>>
    /\ result # template
    /\ again.out = result
    /\ again.warns = <<>>

-----------------------------------------------------------------------------
(* Properties of createProject *)

\* C9: when the project directory exists at the call, the run logs the
\* error and exits with code 1, and it creates no directory, reads, writes
\* or copies no file and spawns no process; the directory stays as it was.
C9_ExistingDirectoryAborts ==
    env.projectDirExists =>
        /\ cpc \in {"createProject", "exited"}
        /\ projFs = InitialProjFs(env)
        /\ ops = <<>>
        /\ git.state = "unspawned" /\ npm.state = "unspawned"
        /\ cpc = "exited" =>
              /\ exitCode = 1
              /\ log = <<Entry("error",
                               "Error: Project directory already exists.",
                               projectName)>>

\* A run found the project directory and has exited.
C9_Witness ==
    /\ env.projectDirExists
    /\ cpc = "exited"
    /\ exitCode = 1
    /\ <<OldFileName>> \in DOMAIN projFs.files

\* The steps that follow initializeGitRepository have begun.
AfterGitInitStep ==
    cpc \in {"copyExamplesDirectory", "createGitIgnore", "createNpmRcFile",
             "generateAzurePipelineYaml", "createDefaultPackageJson",
             "installNpmDependencies", "returned"}

\* C10 as stated: git init has run to completion before a template is
\* rendered and before npm install is started.
C10_GitClosedBeforeNextStep ==
    (AfterGitInitStep \/ npm.state # "unspawned") => git.state = "exited"

\* C10, amended: the steps run one after another, but the processes are
\* only started; their close handlers, which report a failure, run after
\* createProject has returned, never between two steps.
C10_CloseHandlersAfterReturn ==
    /\ (git.closed \/ npm.closed) => cpc = "returned"
    /\ npm.state # "unspawned" => git.state # "unspawned"
    /\ (cpc # "returned" /\ git.state = "exited") =>
          \A i \in 1..Len(log) : log[i].text # "git init failed with exit code"

\* npm install has been started, after the templates were written, while
\* git init is still running.
C10_Witness ==
    /\ cpc = "returned"
    /\ git.state = "running"
    /\ npm.state = "running"
    /\ \E i \in 1..Len(ops) : ops[i].op = "write"

\* The number of operations of kind op done on path.
OpsOn(op, path) ==
    Cardinality({ i \in 1..Len(ops) : ops[i].op = op /\ ops[i].path = path })

\* The number of operations of kind op.
OpsOfKind(op) == Cardinality({ i \in 1..Len(ops) : ops[i].op = op })

\* The log holds a message with this text.
Logged(text) == \E i \in 1..Len(log) : log[i].text = text

\* The template as renderProjectTemplates renders it.
RenderedWithProjectName(content) ==
    renderTemplate(content, (IdProjectName :> projectName)).out

\* Some template of templates/pulumi is written to package.json.
PackageJsonFromTemplate ==
    \E t \in PulumiTemplateFiles(env) : RemoveFirstTpl(t) = PackageJsonName

\* C11: the default package.json is written if and only if no package.json
\* exists when createDefaultPackageJson runs; a package.json rendered from
\* a template is never overwritten.
C11_DefaultPackageJsonOnlyWhenMissing ==
    /\ (cpc = "createDefaultPackageJson" /\ ~PackageJsonFromTemplate) =>
          <<PackageJsonName>> \notin DOMAIN projFs.files
    /\ cpc \in {"installNpmDependencies", "returned"} =>
          /\ <<PackageJsonName>> \in DOMAIN projFs.files
          /\ OpsOn("write", <<PackageJsonName>>) = 1
          /\ projFs.files[<<PackageJsonName>>] =
                IF PackageJsonFromTemplate
                THEN RenderedWithProjectName(TemplateContent[PackageJsonTpl])
                ELSE DefaultPackageJson

\* createDefaultPackageJson has run on a directory that holds the
\* package.json rendered from package.json.tpl.
C11_Witness ==
    /\ cpc = "returned"
    /\ PackageJsonFromTemplate
    /\ projFs.files[<<PackageJsonName>>] # DefaultPackageJson
    /\ Logged("Warning: No value provided for placeholder")

\* The content createGitIgnore leaves in .gitignore.
ExpectedGitignore ==
    IF env.gitignoreTpl THEN GitignoreTplContent ELSE DefaultGitignore

NoOptionalInput ==
    /\ ~env.gitignoreTpl /\ ~env.npmRcTpl /\ ~env.pipelineTpl
    /\ ~env.examplesExists

AfterCopyExamples ==
    cpc \in {"createGitIgnore", "createNpmRcFile", "generateAzurePipelineYaml",
             "createDefaultPackageJson", "installNpmDependencies", "returned"}

\* The path lies in the examples directory of the project.
UnderExamples(path) == Len(path) >= 1 /\ path[1] = ExamplesName

\* C14: when the examples source exists, every file and subdirectory of it
\* exists at the same relative path under <projectDir>/examples after the
\* copy; when it does not, nothing is copied, a warning is logged and the
\* run continues.
C14_ExamplesCopiedOrSkipped ==
    AfterCopyExamples =>
        IF env.examplesExists
        THEN /\ <<ExamplesName>> \in projFs.dirs
             /\ \A d \in env.examples.dirs :
                   (<<ExamplesName>> \o d) \in projFs.dirs
             /\ \A f \in env.examples.files :
                   /\ (<<ExamplesName>> \o f) \in DOMAIN projFs.files
                   /\ projFs.files[<<ExamplesName>> \o f] = ExampleContent(f)
             /\ Logged("Copied resource examples to project.")
        ELSE /\ \A path \in projFs.dirs \cup DOMAIN projFs.files :
                   ~UnderExamples(path)
             /\ OpsOfKind("copy") = 0
             /\ Logged("No examples directory found to copy.")
             /\ cpc # "exited"

\* A tree with a file two directories down and an empty directory has been
\* copied.
C14_Witness ==
    /\ cpc = "returned"
    /\ env.examplesExists
    /\ \E f \in env.examples.files : Len(f) = 3
    /\ \E d \in env.examples.dirs : ChildFiles(env.examples, d) = {}
    /\ OpsOfKind("copy") = Cardinality(env.examples.files)

\* The log holds this entry.
LoggedEntry(e) == \E i \in 1..Len(log) : log[i] = e

GitSpawn == [op |-> "spawn", path |-> <<"git", "init">>]
NpmSpawn == [op |-> "spawn", path |-> <<"npm", "install">>]

\* C16: the success message and the next steps are logged exactly when npm
\* install has closed with code 0, the failure message with the code and no
\* success message when it has closed with another code, whatever git init
\* did; a failed git init only logs its error, and the run still goes
\* through every later step.
C16_NpmOutcomeAloneDecidesMessage ==
    /\ (npm.closed /\ npm.code = 0)
          <=> (Logged("Project setup complete!") /\ Logged("Next steps:"))
    /\ Logged("Project setup complete!") <=> Logged("Next steps:")
    /\ (npm.closed /\ npm.code # 0)
          <=> LoggedEntry(Entry("error", "npm install failed with exit code",
                                <<npm.code>>))
    /\ Logged("npm install failed with exit code")
          => (npm.closed /\ npm.code # 0)
    /\ (git.closed /\ git.code # 0)
          <=> LoggedEntry(Entry("error", "git init failed with exit code",
                                <<git.code>>))
    /\ Logged("git init failed with exit code") =>
          /\ git.closed /\ git.code # 0
          /\ cpc = "returned"
          /\ exitCode = NoCode
          /\ npm.state # "unspawned"

\* git init failed and npm install succeeded; both handlers have run.
C16_Witness ==
    /\ git.closed /\ git.code # 0
    /\ npm.closed /\ npm.code = 0
    /\ Logged("git init failed with exit code")
    /\ Logged("Project setup complete!")

\* The position of the first operation equal to o, 0 when there is none.
FirstOp(o) ==
    IF \E i \in 1..Len(ops) : ops[i] = o
    THEN CHOOSE i \in 1..Len(ops) :
            ops[i] = o /\ \A j \in 1..(i - 1) : ops[j] # o
    ELSE 0

\* The number of operations equal to o.
CountOp(o) == Cardinality({ i \in 1..Len(ops) : ops[i] = o })

\* The run has ended: createProject has returned or the process has exited.
RunEnded == cpc \in {"returned", "exited"}

\* The project directory is made first, git init is spawned once, after it
\* and before any file is read, written or copied.
DirectoryThenGitThenFiles ==
    /\ ops # <<>> => ops[1] = [op |-> "mkdir", path |-> <<>>]
    /\ CountOp(GitSpawn) <= 1
    /\ Len(ops) >= 2 => ops[2] = GitSpawn
    /\ \A i \in 1..Len(ops) :
          ops[i].op \in {"read", "write", "copy"} => i > 2
    /\ (cpc \notin {"createProject", "createProjectDirectory",
                    "initializeGitRepository"} /\ ops # <<>>)
          => CountOp(GitSpawn) = 1
    /\ DOMAIN projFs.files # {} => <<>> \in projFs.dirs

\* C17 as stated: every run that passes the existence check spawns npm
\* install exactly once, as its last operation, with package.json written.
C17_EveryRunSpawnsNpmLast ==
    /\ DirectoryThenGitThenFiles
    /\ (RunEnded /\ ~env.projectDirExists) =>
          /\ CountOp(NpmSpawn) = 1
          /\ ops[Len(ops)] = NpmSpawn
          /\ <<PackageJsonName>> \in DOMAIN projFs.files

\* C17, amended: the directory is made first, then git init is spawned,
\* once; a run that finds a template spawns npm install exactly once, as
\* its last operation, with package.json written; a run that finds none
\* never spawns it.
C17_RunWithTemplatesSpawnsNpmLast ==
    /\ DirectoryThenGitThenFiles
    /\ CountOp(NpmSpawn) <= 1
    /\ CountOp(NpmSpawn) = 1 <=> cpc = "returned"
    /\ (RunEnded /\ ~env.projectDirExists /\ PulumiTemplateFiles(env) # {}) =>
          /\ cpc = "returned"
          /\ ops[Len(ops)] = NpmSpawn
          /\ <<PackageJsonName>> \in DOMAIN projFs.files
          /\ \A i \in 1..(Len(ops) - 1) : ops[i] # NpmSpawn
    /\ (RunEnded /\ ~env.projectDirExists /\ PulumiTemplateFiles(env) = {}) =>
          /\ cpc = "exited"
          /\ CountOp(NpmSpawn) = 0

\* A run with two templates has returned: the directory, git init, the
\* files, then npm install.
C17_Witness ==
    /\ cpc = "returned"
    /\ Cardinality(PulumiTemplateFiles(env)) = 2
    /\ FirstOp([op |-> "mkdir", path |-> <<>>]) = 1
    /\ FirstOp(GitSpawn) = 2
    /\ FirstOp(NpmSpawn) = Len(ops)
    /\ OpsOfKind("write") >= 3

\* C18: without a regular file ending in .tpl in templates/pulumi the run
\* logs the error and exits with code 1; no file is read, written or copied
\* and npm install is not started; the project directory made and the git
\* init spawned before stay.
C18_NoTemplatesExitsKeepingDirectory ==
    /\ (~env.projectDirExists /\ PulumiTemplateFiles(env) = {}) =>
          /\ cpc \in {"createProject", "createProjectDirectory",
                      "initializeGitRepository", "renderProjectTemplates",
                      "exited"}
          /\ OpsOfKind("read") = 0
          /\ OpsOfKind("write") = 0
          /\ OpsOfKind("copy") = 0
          /\ DOMAIN projFs.files = {}
          /\ npm.state = "unspawned"
          /\ cpc = "exited" =>
                /\ exitCode = 1
                /\ Logged("Error: No template files found")
                /\ log[Len(log)].level = "error"
                /\ projFs.dirs = {<<>>}
                /\ ops = <<[op |-> "mkdir", path |-> <<>>], GitSpawn>>
                /\ git.state # "unspawned"
    /\ Logged("Error: No template files found") =>
          (PulumiTemplateFiles(env) = {} /\ cpc = "exited")

\* templates/pulumi holds a file that is no template and a subdirectory
\* named like one; the run has exited and the directory exists.
C18_Witness ==
    /\ env.pulumi = { [name |-> ReadmeMd, isFile |-> TRUE],
                      [name |-> ExtraTplDir, isFile |-> FALSE] }
    /\ cpc = "exited"
    /\ exitCode = 1
    /\ <<>> \in projFs.dirs
    /\ git.state = "exited"

\* createNpmRcFile, generateAzurePipelineYaml have been left.
AfterNpmRc ==
    cpc \in {"generateAzurePipelineYaml", "createDefaultPackageJson",
             "installNpmDependencies", "returned"}
AfterPipeline ==
    cpc \in {"createDefaultPackageJson", "installNpmDependencies", "returned"}

\* C19: a missing .npmrc template, pipeline template or examples directory
\* is reported and its output is not created, and the run goes on to spawn
\* npm install; a template that exists is written as it is, placeholders
\* included.
C19_MissingOptionalInputsNonFatal ==
    /\ AfterNpmRc =>
          IF env.npmRcTpl
          THEN /\ projFs.files[<<NpmRcName>>] = NpmRcTplContent
               /\ ~Logged("Error: .npmrc template not found")
          ELSE /\ <<NpmRcName>> \notin DOMAIN projFs.files
               /\ Logged("Error: .npmrc template not found")
    /\ AfterPipeline =>
          IF env.pipelineTpl
          THEN /\ projFs.files[<<PipelineName>>] = PipelineTplContent
               /\ ~Logged("Error: Azure Pipeline template not found")
          ELSE /\ <<PipelineName>> \notin DOMAIN projFs.files
               /\ Logged("Error: Azure Pipeline template not found")
    /\ (AfterCopyExamples /\ ~env.examplesExists) =>
          /\ Logged("No examples directory found to copy.")
          /\ <<ExamplesName>> \notin projFs.dirs
          /\ \A f \in DOMAIN projFs.files : ~UnderExamples(f)
          /\ OpsOfKind("copy") = 0
    /\ (\/ Logged("Error: .npmrc template not found")
        \/ Logged("Error: Azure Pipeline template not found")
        \/ Logged("No examples directory found to copy.")) =>
          /\ cpc # "exited"
          /\ exitCode = NoCode
          /\ cpc = "returned" => CountOp(NpmSpawn) = 1

\* All three are missing and the run has spawned npm install.
C19_Witness ==
    /\ ~env.npmRcTpl /\ ~env.pipelineTpl /\ ~env.examplesExists
    /\ cpc = "returned"
    /\ npm.state # "unspawned"
    /\ Logged("Error: .npmrc template not found")
    /\ Logged("Error: Azure Pipeline template not found")
    /\ Logged("No examples directory found to copy.")

\* Both templates exist and were written with their placeholder in place.
C19_WitnessVerbatim ==
    /\ env.npmRcTpl /\ env.pipelineTpl
    /\ cpc = "returned"
    /\ projFs.files[<<NpmRcName>>] = <<"r", "=">> \o TokProjectName
    /\ projFs.files[<<PipelineName>>] = <<"n", ":", " ">> \o TokProjectName

\* The template name with its trailing .tpl removed.
TrailingTplRemoved(name) == SubSeq(name, 1, Len(name) - 1)

\* The path of the write that follows the read of this template.
WrittenFor(t) ==
    { ops[i + 1].path : i \in { j \in 1..(Len(ops) - 1) :
                                  ops[j] = [op |-> "read", path |-> <<t>>] } }

\* C20: once the templates are rendered, every regular file ending in .tpl
\* has been written once, to its name without the trailing .tpl, with its
\* content rendered with projectName; nothing else has been written, and no
\* two templates were written to the same path.
C20_EachTemplateWritesItsOwnFile ==
    (cpc = "copyExamplesDirectory") =>
        /\ \A t \in PulumiTemplateFiles(env) :
              /\ WrittenFor(t) = {<<TrailingTplRemoved(t)>>}
              /\ OpsOn("write", <<TrailingTplRemoved(t)>>) = 1
              /\ projFs.files[<<TrailingTplRemoved(t)>>]
                    = RenderedWithProjectName(TemplateContent[t])
        /\ OpsOfKind("write") = Cardinality(PulumiTemplateFiles(env))
        /\ DOMAIN projFs.files
              = { <<TrailingTplRemoved(t)>> : t \in PulumiTemplateFiles(env) }
        /\ \A t1, t2 \in PulumiTemplateFiles(env) :
              t1 # t2 => WrittenFor(t1) \cap WrittenFor(t2) = {}

-----------------------------------------------------------------------------
(* Properties of the build-and-link script *)

\* The script has logged this text.
ScriptLogged(text) == \E i \in 1..Len(blog) : blog[i].text = text

\* C15: npm link is started only after npm run build has closed with code
\* 0; after a close with another code no further command is run, and the
\* script ends by logging the error and exiting with code 1; the success of
\* npm link is logged only when both commands closed with code 0.
C15_LinkOnlyAfterBuildSucceeded ==
    /\ bcmds \in {<<>>, <<NpmRunBuild>>, <<NpmRunBuild, NpmLink>>}
    /\ Len(bcmds) = 2 => (Len(bclosed) >= 1 /\ bclosed[1].code = 0)
    /\ \A i \in 1..Len(bclosed) :
          /\ bclosed[i].cmd = bcmds[i]
          /\ bclosed[i].code # 0 =>
                /\ Len(bcmds) = i
                /\ bpc \in {"awaitBuild", "awaitLink", "exited"}
                /\ bpromise.state = "rejected"
    /\ bpc = "exited" =>
          /\ bexit = 1
          /\ blog[Len(blog)].level = "error"
          /\ \E i \in 1..Len(bclosed) : bclosed[i].code # 0
    /\ bpc # "exited" => (bexit = NoCode /\ ~ScriptLogged("Error during build and link process:"))
    /\ ScriptLogged("\"npm link\" completed successfully.") =>
          bclosed = <<[cmd |-> NpmRunBuild, code |-> 0],
                      [cmd |-> NpmLink, code |-> 0]>>
    /\ bpc = "done" => ScriptLogged("\"npm link\" completed successfully.")

\* npm run build closed with code 0, npm link with another code, and the
\* script has exited.
C15_Witness ==
    /\ bpc = "exited"
    /\ bcmds = <<NpmRunBuild, NpmLink>>
    /\ Len(bclosed) = 2
    /\ bclosed[1].code = 0
    /\ bclosed[2].code # 0
    /\ bexit = 1

====
